---- MODULE Spec2Model ----
(***************************************************************************)
(* State-machine model of the two installation-test scripts                *)
(*   build_tools/packaging/linux/native_linux_packages_test_gpg.py         *)
(*   build_tools/packaging/linux/package_full_test.py                      *)
(*                                                                         *)
(* A Python string is a sequence of tokens.  Strings whose letters matter  *)
(* (OS profile, GPU architecture, release type) are spelled one character  *)
(* per token; longer fixed pieces (a URL host, a directory) are one token. *)
(* An external command is a child process drawn from Children: whether it  *)
(* starts, when it closes its output, when it exits, and its exit code.    *)
(***************************************************************************)
EXTENDS Integers, Sequences, FiniteSets, TLC

VARIABLES
    script,               \* which script runs: "native" or "full"
    pc,                   \* position of the process
    args,                 \* argparse namespace of main
    self,                 \* fields of the tester object (NoObject before __init__)
    fs,                   \* files under the install prefix
    trace,                \* external effects so far, in order
    setup_success,        \* local of run(): "unset", "True", "False"
    install_success,      \* local of run()
    verification_success, \* local of run()
    success,              \* local of main: value returned by run()
    environ,              \* os.environ: the ROCM_* overrides, "" when unset
    exception,            \* "none", or where an exception was raised
    exit_code             \* exit status of the process, NoExit while running

vars == <<script, pc, args, self, fs, trace, setup_success, install_success,
          verification_success, success, environ, exception, exit_code>>

----------------------------------------------------------------------------
(* Bounds of the model *)

FastSec == 1        \* a child that is done well inside every timeout
SlowSec == 2000     \* a child that outlasts every timeout of the scripts
MaxRc == 1          \* exit codes 0..MaxRc

Never == 0 - 1      \* the time of an event that never happens
NoExit == 0 - 1     \* exit_code while the process is alive

----------------------------------------------------------------------------
(* Python values and string methods *)

None == <<"<None>">>

Truthy(s) == s # None /\ s # <<>>

LowerTable ==
    [A |-> "a", B |-> "b", C |-> "c", D |-> "d", E |-> "e", F |-> "f",
     G |-> "g", H |-> "h", I |-> "i", J |-> "j", K |-> "k", L |-> "l",
     M |-> "m", N |-> "n", O |-> "o", P |-> "p", Q |-> "q", R |-> "r",
     S |-> "s", T |-> "t", U |-> "u", V |-> "v", W |-> "w", X |-> "x",
     Y |-> "y", Z |-> "z"]

\* str.lower()
lower(s) ==
    [i \in 1..Len(s) |-> IF s[i] \in DOMAIN LowerTable THEN LowerTable[s[i]] ELSE s[i]]

\* str.startswith(prefix)
startswith(s, prefix) ==
    /\ Len(s) >= Len(prefix)
    /\ SubSeq(s, 1, Len(prefix)) = prefix

Whitespace == {" ", "\t", "\n"}

RECURSIVE rstrip(_, _)
\* str.rstrip(chars)
rstrip(s, chars) ==
    IF s # <<>> /\ s[Len(s)] \in chars THEN rstrip(SubSeq(s, 1, Len(s) - 1), chars) ELSE s

RECURSIVE lstrip(_, _)
lstrip(s, chars) ==
    IF s # <<>> /\ s[1] \in chars THEN lstrip(Tail(s), chars) ELSE s

\* str.strip()
strip(s) == lstrip(rstrip(s, Whitespace), Whitespace)

----------------------------------------------------------------------------
(* Strings of the scripts, spelled out *)

s_ubuntu == <<"u", "b", "u", "n", "t", "u">>
s_debian == <<"d", "e", "b", "i", "a", "n">>
s_rhel == <<"r", "h", "e", "l">>
s_sles == <<"s", "l", "e", "s">>
s_almalinux == <<"a", "l", "m", "a", "l", "i", "n", "u", "x">>
s_centos == <<"c", "e", "n", "t", "o", "s">>
s_azl == <<"a", "z", "l">>
s_gfx94x == <<"g", "f", "x", "9", "4", "x">>
s_amdrocm == <<"a", "m", "d", "r", "o", "c", "m", "-">>
s_nightly == <<"n", "i", "g", "h", "t", "l", "y">>
s_prerelease == <<"p", "r", "e", "r", "e", "l", "e", "a", "s", "e">>

s_deb == <<"d", "e", "b">>
s_rpm == <<"r", "p", "m">>
Digits == {"0", "1", "2", "3", "4", "5", "6", "7", "8", "9"}

----------------------------------------------------------------------------
(* native_linux_packages_test_gpg.py: module-level configuration *)

\* _env(key, default): os.environ[key] if set and non-empty after strip, else default
_env(key, default) ==
    LET v == strip(environ[key])
    IN  IF v # <<>> THEN v ELSE default

REPO_NAME == _env("ROCM_REPO_NAME", <<"rocm-test">>)
APT_KEYRING_DIR == _env("ROCM_APT_KEYRING_DIR", <<"/etc/apt/keyrings">>)
APT_SOURCES_LIST ==
    _env("ROCM_APT_SOURCES_LIST", <<"/etc/apt/sources.list.d/">> \o REPO_NAME \o <<".list">>)
APT_KEYRING_FILE == _env("ROCM_APT_KEYRING_FILE", <<"/etc/apt/keyrings", "/rocm.gpg">>)
ZYPP_REPOS_DIR == _env("ROCM_ZYPP_REPOS_DIR", <<"/etc/zypp/repos.d">>)
YUM_REPOS_DIR == _env("ROCM_YUM_REPOS_DIR", <<"/etc/yum.repos.d">>)
VERIFY_KEY_COMPONENTS ==
    <<"bin/rocminfo", "bin/hipcc", "bin/clinfo", "include/hip/hip_runtime.h",
      "lib/libamdhip64.so">>
RDHC_REL_PATH == _env("ROCM_RDHC_REL_PATH", <<"libexec/rocm-core/rdhc.py">>)

GPG_MKDIR_TIMEOUT_SEC == 10
GPG_KEY_TIMEOUT_SEC == 60
APT_UPDATE_TIMEOUT_SEC == 120
ZYPP_CLEAN_TIMEOUT_SEC == 60
ZYPP_REFRESH_TIMEOUT_SEC == 120
DNF_CLEAN_TIMEOUT_SEC == 60
INSTALL_TIMEOUT_SEC == 1800
ROCMINFO_TIMEOUT_SEC == 30
RDHC_TIMEOUT_SEC == 30
VERIFY_MIN_COMPONENTS == 2

----------------------------------------------------------------------------
(* NativeLinuxPackagesTester: package type, constructor *)

\* _derive_package_type without the lower(): the prefixes compared case-sensitively
_derive_package_type_cs(os_profile) ==
    IF startswith(os_profile, s_ubuntu) \/ startswith(os_profile, s_debian)
    THEN s_deb
    ELSE IF \/ startswith(os_profile, s_rhel)
            \/ startswith(os_profile, s_sles)
            \/ startswith(os_profile, s_almalinux)
            \/ startswith(os_profile, s_centos)
            \/ startswith(os_profile, s_azl)
         THEN s_rpm
         ELSE <<"ValueError">>

\* _derive_package_type(os_profile): s_deb, s_rpm, or the exception it raises
_derive_package_type(os_profile) ==
    LET os_profile_lower == lower(os_profile)
    IN  IF \/ startswith(os_profile_lower, s_ubuntu)
           \/ startswith(os_profile_lower, s_debian)
        THEN s_deb
        ELSE IF \/ startswith(os_profile_lower, s_rhel)
                \/ startswith(os_profile_lower, s_sles)
                \/ startswith(os_profile_lower, s_almalinux)
                \/ startswith(os_profile_lower, s_centos)
                \/ startswith(os_profile_lower, s_azl)
             THEN s_rpm
             ELSE <<"ValueError">>

\* _is_sles(self)
_is_sles(obj) == startswith(lower(obj.os_profile), s_sles)

\* gfx_arch normalised to a list (a gfx_arch argument is [tag, v]: None, a str or a list)
gfx_arch_list(gfx_arch) ==
    IF gfx_arch.tag = "None"
    THEN <<s_gfx94x>>
    ELSE IF gfx_arch.tag = "str"
         THEN IF strip(gfx_arch.v) # <<>> THEN <<gfx_arch.v>> ELSE <<s_gfx94x>>
         ELSE LET kept == SelectSeq(gfx_arch.v, LAMBDA a : a # <<>> /\ strip(a) # <<>>)
              IN  IF kept # <<>> THEN kept ELSE <<s_gfx94x>>

\* the package name built with the prefix "rocm-" in place of "amdrocm-"
package_name_of_rocm(gfx_arch) == <<"r", "o", "c", "m", "-">> \o gfx_arch

\* f"amdrocm-{gfx_arch}"
package_name_of(gfx_arch) == s_amdrocm \o gfx_arch

\* NativeLinuxPackagesTester.__init__ raises: ValueError from _derive_package_type,
\* AttributeError from None.lower()
init_raises(a) ==
    \/ _derive_package_type(a.os_profile) = <<"ValueError">>
    \/ a.release_type = None

\* NativeLinuxPackagesTester.__init__: the fields of the new object
init(a) ==
    [os_profile |-> lower(a.os_profile),
     package_type |-> _derive_package_type(a.os_profile),
     repo_url |-> rstrip(a.repo_url, {"/"}),
     release_type |-> lower(a.release_type),
     install_prefix |-> a.install_prefix,
     gfx_arch_list |-> gfx_arch_list(a.gfx_arch),
     gfx_arch |-> lower(gfx_arch_list(a.gfx_arch)[1]),
     gpg_key_url |-> a.gpg_key_url,
     package_name |-> package_name_of(lower(gfx_arch_list(a.gfx_arch)[1]))]

----------------------------------------------------------------------------
(* PackageFullTester: constructor, repository URL *)

\* PackageFullTester.__init__ raises ValueError on a bad package type or date
P_init_raises(a) ==
    \/ a.gfx_arch.tag # "str"
    \/ lower(a.package_type) \notin {s_deb, s_rpm}
    \/ a.date = <<>>
    \/ Len(a.date) # 8

\* PackageFullTester.__init__ with the base URL taken as given, not rstrip("/")-ed
P_init_no_rstrip(a) ==
    [package_type |-> lower(a.package_type),
     repo_base_url |-> a.repo_base_url,
     artifact_id |-> a.artifact_id,
     rocm_version |-> a.rocm_version,
     os_profile |-> a.os_profile,
     date |-> a.date,
     install_prefix |-> a.install_prefix,
     gfx_arch |-> lower(a.gfx_arch.v),
     repo_url |-> a.repo_base_url \o <<"/">> \o lower(a.package_type)
                    \o <<"/">> \o a.date \o <<"-">> \o a.artifact_id \o <<"/">>]

\* PackageFullTester.__init__: the fields of the new object
P_init(a) ==
    [package_type |-> lower(a.package_type),
     repo_base_url |-> rstrip(a.repo_base_url, {"/"}),
     artifact_id |-> a.artifact_id,
     rocm_version |-> a.rocm_version,
     os_profile |-> a.os_profile,
     date |-> a.date,
     install_prefix |-> a.install_prefix,
     gfx_arch |-> lower(a.gfx_arch.v),
     repo_url |-> rstrip(a.repo_base_url, {"/"}) \o <<"/">> \o lower(a.package_type)
                    \o <<"/">> \o a.date \o <<"-">> \o a.artifact_id \o <<"/">>]

\* construct_repo_url_with_os(self)
construct_repo_url_with_os(obj) ==
    IF obj.package_type = s_deb THEN obj.repo_url ELSE obj.repo_url \o <<"x86_64", "/">>

----------------------------------------------------------------------------
(* External commands.  A child process: whether it could be started, when it *)
(* closes its output, when it exits (seconds after its start), its exit code *)

Durations == {FastSec, SlowSec, Never}

Children ==
    {[start |-> FALSE, closeT |-> Never, exitT |-> Never, rc |-> 0]}
    \cup {c \in [start : {TRUE}, closeT : Durations, exitT : Durations, rc : 0..MaxRc] :
            \/ c.exitT = Never
            \/ (c.closeT # Never /\ c.closeT <= c.exitT)}

\* the child is still running `timeout` seconds after its start
outlasts(c, timeout) == c.start /\ (c.exitT = Never \/ c.exitT > timeout)

\* subprocess.Popen(argv, stdout=PIPE); for line in process.stdout: ...;
\* process.wait(timeout=T), with process.kill() on TimeoutExpired
popen_stream_fate(c, timeout) ==
    IF ~c.start THEN "nostart"
    ELSE IF c.closeT = Never THEN "blocked"
    ELSE IF c.exitT = Never \/ c.exitT > c.closeT + timeout THEN "killed"
    ELSE IF c.rc = 0 THEN "exit0" ELSE "exitN"

\* subprocess.run(argv, timeout=T or no timeout): communicate() until the output is
\* closed and the child has exited; on TimeoutExpired the child is killed
subprocess_run_fate(c, timed, timeout) ==
    IF ~c.start THEN "nostart"
    ELSE IF timed /\ (c.exitT = Never \/ c.exitT > timeout) THEN "killed"
    ELSE IF ~timed /\ c.exitT = Never THEN "blocked"
    ELSE IF c.rc = 0 THEN "exit0" ELSE "exitN"

\* one external effect of the process, as recorded in trace: name is the program
\* or path (a string), data the argument list or the lines written (strings)
Event(kind, name, data, timed, timeout, fate, over) ==
    [kind |-> kind, name |-> name, data |-> data, timed |-> timed,
     timeout |-> timeout, fate |-> fate, over |-> over]

\* the possible outcomes of subprocess.run(argv, ...)
subprocess_run(argv, timed, timeout) ==
    {Event("run", argv[1], argv, timed, timeout,
           subprocess_run_fate(c, timed, timeout), timed /\ outlasts(c, timeout)) :
        c \in Children}

\* the possible outcomes of the Popen / stream / wait(timeout) sequence
popen_stream(argv, timeout) ==
    {Event("popen", argv[1], argv, TRUE, timeout,
           popen_stream_fate(c, timeout), outlasts(c, timeout)) :
        c \in Children}

\* with open(path, "w") as f: f.write(content)
write_file(path, content, ok) ==
    Event("write", path, content, FALSE, 0, IF ok THEN "ok" ELSE "error", FALSE)

\* Path.exists()
path_exists(path, found) ==
    Event("exists", path, <<>>, FALSE, 0, IF found THEN "found" ELSE "missing", FALSE)

\* os.chmod(path, 0o644)
chmod(path, ok) ==
    Event("chmod", path, <<>>, FALSE, 0, IF ok THEN "ok" ELSE "error", FALSE)

\* how a method ends: it returns val, raises, or never returns
Outcome(ev, how, val) == [ev |-> ev, how |-> how, val |-> val]

----------------------------------------------------------------------------
(* NativeLinuxPackagesTester: repository setup *)

\* setup_gpg_key importing the key into the APT keyring whatever the package type
setup_gpg_key_any_family(obj) ==
    IF ~Truthy(obj.gpg_key_url) THEN {Outcome(<<>>, "return", TRUE)}
    ELSE LET keyring_dir == APT_KEYRING_DIR
             keyring_file == keyring_dir \o <<"/rocm.gpg">>
             pipeline_cmd == <<"wget -q -O - ">> \o obj.gpg_key_url
                               \o <<" | gpg --dearmor | tee ">> \o keyring_file
                               \o <<" > /dev/null">>
         IN  UNION {
               IF e1.fate # "exit0" THEN {Outcome(<<e1>>, "return", FALSE)}
               ELSE UNION {
                 IF e2.fate = "nostart" THEN {Outcome(<<e1, e2>>, "return", FALSE)}
                 ELSE UNION {
                   IF e2.fate # "exit0"
                   THEN {Outcome(<<e1, e2, write_file(keyring_file, key, TRUE)>>,
                                 "return", FALSE)}
                   ELSE {Outcome(<<e1, e2, write_file(keyring_file, key, TRUE),
                                   chmod(keyring_file, ok)>>, "return", ok) :
                           ok \in BOOLEAN} :
                   key \in {<<>>, <<<<"dearmored ">> \o obj.gpg_key_url>>} } :
                 e2 \in subprocess_run(<<pipeline_cmd>>, TRUE, GPG_KEY_TIMEOUT_SEC) } :
               e1 \in subprocess_run(<<<<"mkdir">>, <<"--parents">>, <<"--mode=0755">>,
                                       keyring_dir>>, TRUE, GPG_MKDIR_TIMEOUT_SEC) }

\* setup_gpg_key(self)
setup_gpg_key(obj) ==
    IF ~Truthy(obj.gpg_key_url) THEN {Outcome(<<>>, "return", TRUE)}
    ELSE IF obj.package_type = s_deb
    THEN LET keyring_dir == APT_KEYRING_DIR
             keyring_file == keyring_dir \o <<"/rocm.gpg">>
             pipeline_cmd == <<"wget -q -O - ">> \o obj.gpg_key_url
                               \o <<" | gpg --dearmor | tee ">> \o keyring_file
                               \o <<" > /dev/null">>
         IN  UNION {
               IF e1.fate # "exit0" THEN {Outcome(<<e1>>, "return", FALSE)}
               ELSE UNION {
                 IF e2.fate = "nostart" THEN {Outcome(<<e1, e2>>, "return", FALSE)}
                 ELSE UNION {
                   IF e2.fate # "exit0"
                   THEN {Outcome(<<e1, e2, write_file(keyring_file, key, TRUE)>>,
                                 "return", FALSE)}
                   ELSE {Outcome(<<e1, e2, write_file(keyring_file, key, TRUE),
                                   chmod(keyring_file, ok)>>, "return", ok) :
                           ok \in BOOLEAN} :
                   key \in {<<>>, <<<<"dearmored ">> \o obj.gpg_key_url>>} } :
                 e2 \in subprocess_run(<<pipeline_cmd>>, TRUE, GPG_KEY_TIMEOUT_SEC) } :
               e1 \in subprocess_run(<<<<"mkdir">>, <<"--parents">>, <<"--mode=0755">>,
                                       keyring_dir>>, TRUE, GPG_MKDIR_TIMEOUT_SEC) }
    ELSE {Outcome(<<>>, "return", TRUE)}

\* the source entry chosen by "gpg_key_url is not None" in place of its truth value
repo_entry_not_none(obj) ==
    IF obj.gpg_key_url # None
    THEN <<"deb [arch=amd64 ", "signed-by=">> \o APT_KEYRING_FILE \o <<"] ">>
           \o obj.repo_url \o <<" stable main">>
    ELSE <<"deb [arch=amd64 ", "trusted=yes", "] ">> \o obj.repo_url \o <<" stable main">>

\* the APT source entry (one line) of setup_deb_repository
repo_entry(obj) ==
    IF Truthy(obj.gpg_key_url)
    THEN <<"deb [arch=amd64 ", "signed-by=">> \o APT_KEYRING_FILE \o <<"] ">>
           \o obj.repo_url \o <<" stable main">>
    ELSE <<"deb [arch=amd64 ", "trusted=yes", "] ">> \o obj.repo_url \o <<" stable main">>

\* setup_deb_repository(self)
setup_deb_repository(obj) ==
    UNION {
      IF ~g.val THEN {Outcome(g.ev, "return", FALSE)}
      ELSE {Outcome(g.ev \o <<write_file(APT_SOURCES_LIST, <<repo_entry(obj)>>, FALSE)>>,
                    "return", FALSE)}
           \cup {Outcome(g.ev \o <<write_file(APT_SOURCES_LIST, <<repo_entry(obj)>>, TRUE), e>>,
                         IF e.fate = "blocked" THEN "hang" ELSE "return",
                         e.fate = "exit0") :
                   e \in popen_stream(<<<<"apt">>, <<"update">>>>, APT_UPDATE_TIMEOUT_SEC)} :
      g \in IF Truthy(obj.gpg_key_url) THEN setup_gpg_key(obj)
            ELSE {Outcome(<<>>, "return", TRUE)} }

\* the .repo file content (its lines) of _setup_sles_repository
sles_repo_content(obj) ==
    << <<"[">> \o REPO_NAME \o <<"]">>,
       <<"name=ROCm ">> \o obj.release_type \o <<" repository">>,
       <<"baseurl=">> \o obj.repo_url,
       <<"enabled=1">> >>
      \o (IF Truthy(obj.gpg_key_url)
          THEN << <<"gpgcheck=1">>, <<"gpgkey=">> \o obj.gpg_key_url >>
          ELSE << <<"gpgcheck=0">> >>)

\* the zypper refresh command of _setup_sles_repository
refresh_cmd(obj) ==
    <<<<"zypper">>, <<"--non-interactive">>>>
      \o (IF Truthy(obj.gpg_key_url) THEN <<<<"--gpg-auto-import-keys">>>> ELSE <<>>)
      \o <<<<"refresh">>, REPO_NAME>>

\* _setup_sles_repository(self)
_setup_sles_repository(obj) ==
    LET repo_name == REPO_NAME
        repo_file == ZYPP_REPOS_DIR \o <<"/">> \o repo_name \o <<".repo">>
    IN  UNION {
          IF rm.fate = "nostart" THEN {Outcome(<<rm>>, "raise", FALSE)}
          ELSE IF rm.fate = "blocked" THEN {Outcome(<<rm>>, "hang", FALSE)}
          ELSE {Outcome(<<rm, write_file(repo_file, sles_repo_content(obj), FALSE)>>,
                        "return", FALSE)}
               \cup UNION {
                 {Outcome(<<rm, write_file(repo_file, sles_repo_content(obj), TRUE),
                            clean, e>>,
                          IF e.fate = "blocked" THEN "hang" ELSE "return",
                          e.fate = "exit0") :
                    e \in popen_stream(refresh_cmd(obj), ZYPP_REFRESH_TIMEOUT_SEC)} :
                 clean \in subprocess_run(<<<<"zypper">>, <<"--non-interactive">>,
                                            <<"clean">>, <<"--all">>>>,
                                          TRUE, ZYPP_CLEAN_TIMEOUT_SEC) } :
          rm \in subprocess_run(<<<<"zypper">>, <<"--non-interactive">>,
                                  <<"removerepo">>, repo_name>>, FALSE, 0) }

\* the .repo file content (its lines) of _setup_dnf_repository
dnf_repo_content(obj) ==
    IF Truthy(obj.gpg_key_url)
    THEN << <<"[", "rocm_name", "]">>,
            <<"name=ROCm Repository">>,
            <<"baseurl=">> \o obj.repo_url,
            <<"enabled=1">>,
            <<"gpgcheck=1">>,
            <<"gpgkey=">> \o obj.gpg_key_url >>
    ELSE << <<"[", "rocm_name", "]">>,
            <<"name=Native Linux Package Test Repository">>,
            <<"baseurl=">> \o obj.repo_url,
            <<"enabled=1">>,
            <<"gpgcheck=0">> >>

\* _setup_dnf_repository(self)
_setup_dnf_repository(obj) ==
    LET repo_name == REPO_NAME
        repo_file == YUM_REPOS_DIR \o <<"/">> \o repo_name \o <<".repo">>
    IN  {Outcome(<<write_file(repo_file, dnf_repo_content(obj), FALSE)>>, "return", FALSE)}
        \cup {Outcome(<<write_file(repo_file, dnf_repo_content(obj), TRUE), clean>>,
                      IF clean.fate = "nostart" THEN "raise" ELSE "return",
                      clean.fate # "nostart") :
                clean \in subprocess_run(<<<<"dnf">>, <<"clean">>, <<"all">>>>,
                                         TRUE, DNF_CLEAN_TIMEOUT_SEC)}

\* setup_rpm_repository(self)
setup_rpm_repository(obj) ==
    UNION {
      IF ~g.val THEN {Outcome(g.ev, "return", FALSE)}
      ELSE {Outcome(g.ev \o o.ev, o.how, o.val) :
              o \in IF _is_sles(obj) THEN _setup_sles_repository(obj)
                    ELSE _setup_dnf_repository(obj)} :
      g \in IF Truthy(obj.gpg_key_url) /\ ~_is_sles(obj) THEN setup_gpg_key(obj)
            ELSE {Outcome(<<>>, "return", TRUE)} }

----------------------------------------------------------------------------
(* NativeLinuxPackagesTester: install, verification *)

\* the outcome of an install command: Popen, stream, wait(INSTALL_TIMEOUT_SEC)
install_with(cmd) ==
    {Outcome(<<e>>, IF e.fate = "blocked" THEN "hang" ELSE "return", e.fate = "exit0") :
       e \in popen_stream(cmd, INSTALL_TIMEOUT_SEC)}

\* install_deb_packages(self)
install_deb_packages(obj) ==
    install_with(<<<<"apt">>, <<"install">>, <<"-y">>, obj.package_name>>)

\* the command of install_rpm_packages with GPG checks skipped whatever the key URL
install_rpm_cmd_no_gpg_checks(obj) ==
    IF _is_sles(obj)
    THEN <<<<"zypper">>, <<"--non-interactive">>, <<"--no-gpg-checks">>,
           <<"install">>, <<"-y">>, obj.package_name>>
    ELSE <<<<"dnf">>, <<"install">>, <<"-y">>, obj.package_name>>

\* the command of install_rpm_packages
install_rpm_cmd(obj) ==
    IF _is_sles(obj)
    THEN IF ~Truthy(obj.gpg_key_url)
         THEN <<<<"zypper">>, <<"--non-interactive">>, <<"--no-gpg-checks">>,
                <<"install">>, <<"-y">>, obj.package_name>>
         ELSE <<<<"zypper">>, <<"--non-interactive">>, <<"--gpg-auto-import-keys">>,
                <<"install">>, <<"-y">>, obj.package_name>>
    ELSE <<<<"dnf">>, <<"install">>, <<"-y">>, obj.package_name>>

\* install_rpm_packages(self)
install_rpm_packages(obj) == install_with(install_rpm_cmd(obj))

\* test_rdhc(self)
test_rdhc(obj, f) ==
    LET install_path == obj.install_prefix
        rdhc_script == install_path \o <<"/">> \o RDHC_REL_PATH
        cmd == IF f.rdhc = "exec" THEN <<rdhc_script>>
               ELSE <<<<"python3">>, rdhc_script>>
    IN  IF f.rdhc = "absent"
        THEN {Outcome(<<path_exists(rdhc_script, FALSE)>>, "return", FALSE)}
        ELSE {Outcome(<<path_exists(rdhc_script, TRUE), e>>, "return", e.fate = "exit0") :
                e \in subprocess_run(cmd \o <<<<"--all">>>>, TRUE, RDHC_TIMEOUT_SEC)}

\* the installed-package listing command of verify_rocm_installation
query_cmd(obj) ==
    IF obj.package_type = s_deb THEN <<<<"dpkg">>, <<"-l">>>>
    ELSE IF _is_sles(obj)
         THEN <<<<"zypper">>, <<"--non-interactive">>, <<"search">>, <<"-i">>, <<"rocm">>>>
         ELSE <<<<"rpm">>, <<"-qa">>>>

\* the existence checks of the key components, in order
component_checks(install_path, key_components, f) ==
    [i \in 1..Len(key_components) |->
        path_exists(install_path \o <<"/", key_components[i]>>,
                    key_components[i] \in f.present)]

\* found_count of verify_rocm_installation
found_count(key_components, f) ==
    Cardinality({i \in 1..Len(key_components) : key_components[i] \in f.present})

\* the rocminfo step of verify_rocm_installation
try_rocminfo(install_path, f) ==
    LET rocminfo_path == install_path \o <<"/", "bin", "/", "rocminfo">>
    IN  IF "bin/rocminfo" \in f.present
        THEN {<<path_exists(rocminfo_path, TRUE), e>> :
                e \in subprocess_run(<<rocminfo_path>>, TRUE, ROCMINFO_TIMEOUT_SEC)}
        ELSE {<<path_exists(rocminfo_path, FALSE)>>}

\* verify_rocm_installation(self)
verify_rocm_installation(obj, f) ==
    IF obj.install_prefix = None THEN {Outcome(<<>>, "raise", FALSE)}
    ELSE
    LET install_path == obj.install_prefix
        head == <<path_exists(install_path, f.prefix)>>
        checked == head \o component_checks(install_path, VERIFY_KEY_COMPONENTS, f)
    IN  IF ~f.prefix THEN {Outcome(head, "return", FALSE)}
        ELSE UNION {
          IF q.fate = "nostart" THEN {Outcome(checked \o <<q>>, "raise", FALSE)}
          ELSE IF q.fate = "blocked" THEN {Outcome(checked \o <<q>>, "hang", FALSE)}
          ELSE UNION {
            {Outcome(checked \o <<q>> \o r \o d.ev, "return",
                     found_count(VERIFY_KEY_COMPONENTS, f) >= VERIFY_MIN_COMPONENTS) :
               d \in test_rdhc(obj, f)} :
            r \in try_rocminfo(install_path, f) } :
          q \in subprocess_run(query_cmd(obj), FALSE, 0) }

----------------------------------------------------------------------------
(* PackageFullTester: repository setup, install, verification *)

P_KEY_COMPONENTS ==
    <<"bin/rocminfo", "bin/hipcc", "include/hip/hip_runtime.h", "lib/libamdhip64.so">>

\* PackageFullTester.setup_deb_repository(self)
P_setup_deb_repository(obj) ==
    LET repo_url == construct_repo_url_with_os(obj)
        sources_list == <<"/etc/apt/sources.list.d/", "rocm-test", ".list">>
        entry == <<"deb [arch=amd64 ", "trusted=yes", "] ">> \o repo_url \o <<" stable main">>
    IN  {Outcome(<<write_file(sources_list, <<entry>>, FALSE)>>, "return", FALSE)}
        \cup {Outcome(<<write_file(sources_list, <<entry>>, TRUE), e>>,
                      IF e.fate = "blocked" THEN "hang" ELSE "return",
                      e.fate = "exit0") :
                e \in popen_stream(<<<<"apt">>, <<"update">>>>, 120)}

\* PackageFullTester.setup_rpm_repository(self)
P_setup_rpm_repository(obj) ==
    LET repo_url == construct_repo_url_with_os(obj)
        repo_file == <<"/etc/yum.repos.d", "/", "rocm-test", ".repo">>
        repo_content == << <<"[", "rocm-test", "]">>,
                           <<"name=ROCm Test Repository">>,
                           <<"baseurl=">> \o repo_url,
                           <<"enabled=1">>,
                           <<"gpgcheck=0">> >>
    IN  {Outcome(<<write_file(repo_file, repo_content, FALSE)>>, "return", FALSE)}
        \cup {Outcome(<<write_file(repo_file, repo_content, TRUE), clean>>,
                      IF clean.fate = "nostart" THEN "raise" ELSE "return",
                      clean.fate = "exit0") :
                clean \in subprocess_run(<<<<"dnf">>, <<"clean">>, <<"all">>>>, TRUE, 60)}

\* the outcome of an install command of PackageFullTester: wait(timeout=1800)
P_install_with(cmd) ==
    {Outcome(<<e>>, IF e.fate = "blocked" THEN "hang" ELSE "return", e.fate = "exit0") :
       e \in popen_stream(cmd, 1800)}

\* PackageFullTester.install_deb_packages(self)
P_install_deb_packages(obj) ==
    P_install_with(<<<<"apt">>, <<"install">>, <<"-y">>, s_amdrocm \o obj.gfx_arch>>)

\* PackageFullTester.install_rpm_packages(self)
P_install_rpm_packages(obj) ==
    P_install_with(<<<<"dnf">>, <<"install">>, <<"-y">>, s_amdrocm \o obj.gfx_arch>>)

\* PackageFullTester._try_rdhc_without_args(self, cmd, install_path)
_try_rdhc_without_args(cmd, install_path) ==
    {Outcome(<<e>>, "return", e.fate = "exit0") : e \in subprocess_run(cmd, TRUE, 30)}

\* PackageFullTester.test_rdhc(self)
P_test_rdhc(obj, f) ==
    LET install_path == obj.install_prefix
        rdhc_script == install_path \o <<"/", "libexec", "/", "rocm-core", "/", "rdhc.py">>
        cmd == IF f.rdhc = "exec" THEN <<rdhc_script>>
               ELSE <<<<"python3">>, rdhc_script>>
    IN  IF f.rdhc = "absent"
        THEN {Outcome(<<path_exists(rdhc_script, FALSE)>>, "return", FALSE)}
        ELSE UNION {
               IF e.fate \in {"killed", "exitN"}
               THEN {Outcome(<<path_exists(rdhc_script, TRUE), e>> \o o.ev, "return", o.val) :
                       o \in _try_rdhc_without_args(cmd, install_path)}
               ELSE {Outcome(<<path_exists(rdhc_script, TRUE), e>>, "return",
                             e.fate = "exit0")} :
               e \in subprocess_run(cmd \o <<<<"--all">>>>, TRUE, 30) }

\* the installed-package listing command of PackageFullTester.verify_rocm_installation
P_query_cmd(obj) ==
    IF obj.package_type = s_deb THEN <<<<"dpkg">>, <<"-l">>>> ELSE <<<<"rpm">>, <<"-qa">>>>

\* the rocminfo step of PackageFullTester.verify_rocm_installation
P_try_rocminfo(install_path, f) ==
    LET rocminfo_path == install_path \o <<"/", "bin", "/", "rocminfo">>
    IN  IF "bin/rocminfo" \in f.present
        THEN {<<path_exists(rocminfo_path, TRUE), e>> :
                e \in subprocess_run(<<rocminfo_path>>, TRUE, 30)}
        ELSE {<<path_exists(rocminfo_path, FALSE)>>}

\* PackageFullTester.verify_rocm_installation(self)
P_verify_rocm_installation(obj, f) ==
    IF obj.install_prefix = None THEN {Outcome(<<>>, "raise", FALSE)}
    ELSE
    LET install_path == obj.install_prefix
        head == <<path_exists(install_path, f.prefix)>>
        checked == head \o component_checks(install_path, P_KEY_COMPONENTS, f)
    IN  IF ~f.prefix THEN {Outcome(head, "return", FALSE)}
        ELSE UNION {
          IF q.fate = "nostart" THEN {Outcome(checked \o <<q>>, "raise", FALSE)}
          ELSE IF q.fate = "blocked" THEN {Outcome(checked \o <<q>>, "hang", FALSE)}
          ELSE UNION {
            {Outcome(checked \o <<q>> \o r \o d.ev, "return",
                     found_count(P_KEY_COMPONENTS, f) >= 2) :
               d \in P_test_rdhc(obj, f)} :
            r \in P_try_rocminfo(install_path, f) } :
          q \in subprocess_run(P_query_cmd(obj), FALSE, 0) }

----------------------------------------------------------------------------
(* Inputs *)

NativeProfiles ==
    {s_ubuntu \o <<"2", "4", "0", "4">>,
     <<"R", "H", "E", "L", "8">>,
     s_sles \o <<"1", "6">>,
     <<"f", "e", "d", "o", "r", "a", "4", "0">>}

s_gfx1151 == <<"g", "f", "x", "1", "1", "5", "1">>
s_GFX942 == <<"G", "F", "X", "9", "4", "2">>

NativeGfx ==
    {[tag |-> "list", v |-> <<s_gfx1151>>],
     [tag |-> "list", v |-> <<s_GFX942, s_gfx1151>>],
     [tag |-> "list", v |-> <<<<" ">>, s_gfx94x>>],
     [tag |-> "list", v |-> <<<<" ">>, s_gfx1151>>],
     [tag |-> "list", v |-> <<<<" ">>>>]}

KeyUrl == <<"https://rocm.prereleases.amd.com", "/", "packages/gpg/rocm.gpg">>
NightlyUrl == <<"https://rocm.nightlies.amd.com", "/", "deb", "/", "20260204-21658678136", "/">>
Prefix == <<"/opt/rocm/core">>

\* the command lines tried: every profile with every key URL, and every GPU
\* architecture, release type and install prefix with one profile
NativeArgs ==
    {a \in [os_profile : NativeProfiles,
            repo_url : {NightlyUrl},
            release_type : {s_nightly, None},
            install_prefix : {None, Prefix},
            gfx_arch : NativeGfx,
            gpg_key_url : {None, <<>>, KeyUrl}] :
        \/ /\ a.release_type = s_nightly
           /\ a.install_prefix = Prefix
           /\ a.gfx_arch = [tag |-> "list", v |-> <<s_gfx1151>>]
        \/ /\ a.os_profile = s_ubuntu \o <<"2", "4", "0", "4">>
           /\ a.gpg_key_url = None}

s_date == <<"2", "0", "2", "6", "0", "2", "0", "4">>

FullArgs ==
    [package_type : {s_deb, s_rpm},
     repo_base_url : {<<"https://rocm.nightlies.amd.com">>,
                      <<"https://rocm.nightlies.amd.com", "/">>,
                      <<"https://rocm.nightlies.amd.com", "/", "/">>},
     artifact_id : {<<"21658678136">>, <<" ">>},
     rocm_version : {<<"8.0.0">>},
     os_profile : {s_ubuntu \o <<"2", "4", "0", "4">>, s_sles \o <<"1", "6">>},
     date : {s_date, <<"2", "0", "2", "6", "-", "2", "-", "4">>,
             <<"2", "0", "2", "6", "0", "2">>, <<>>},
     install_prefix : {Prefix},
     gfx_arch : {[tag |-> "str", v |-> s_gfx94x], [tag |-> "str", v |-> s_GFX942],
                 [tag |-> "str", v |-> <<>>]}]

EnvKeys ==
    {"ROCM_REPO_NAME", "ROCM_APT_KEYRING_DIR", "ROCM_APT_SOURCES_LIST",
     "ROCM_APT_KEYRING_FILE", "ROCM_ZYPP_REPOS_DIR", "ROCM_YUM_REPOS_DIR",
     "ROCM_RDHC_REL_PATH"}

EnvUnset == [k \in EnvKeys |-> <<>>]

EnvOverride ==
    [EnvUnset EXCEPT !["ROCM_REPO_NAME"] = <<" ", "my-rocm">>,
                     !["ROCM_APT_KEYRING_DIR"] = <<"/tmp/keyrings">>]

Environs == {EnvUnset, EnvOverride}

Components ==
    {"bin/rocminfo", "bin/hipcc", "bin/clinfo", "include/hip/hip_runtime.h",
     "lib/libamdhip64.so"}

NoFiles == [prefix |-> FALSE, present |-> {}, rdhc |-> "absent"]

\* what an install can leave under the install prefix: every set of components
\* without the rdhc script, and the rdhc script with three of them
FsStates ==
    {NoFiles}
    \cup [prefix : {TRUE}, present : SUBSET Components, rdhc : {"absent"}]
    \cup [prefix : {TRUE},
          present : {{}, {"bin/hipcc", "lib/libamdhip64.so"}, Components},
          rdhc : {"exec", "noexec"}]

NoObject == [constructed |-> FALSE]

B(b) == IF b THEN "True" ELSE "False"

----------------------------------------------------------------------------
(* The process *)

Init ==
    /\ script \in {"native", "full"}
    /\ pc = "main"
    /\ args \in IF script = "native" THEN NativeArgs ELSE FullArgs
    /\ environ \in IF script = "native" /\ args.gpg_key_url = KeyUrl
                    /\ args.install_prefix = Prefix /\ args.release_type = s_nightly
                  THEN Environs ELSE {EnvUnset}
    /\ self = NoObject
    /\ fs = NoFiles
    /\ trace = <<>>
    /\ setup_success = "unset"
    /\ install_success = "unset"
    /\ verification_success = "unset"
    /\ success = "unset"
    /\ exception = "none"
    /\ exit_code = NoExit

\* parser.error taken to exit like sys.exit(1)
parser_error_status1 ==
    /\ pc' = "exited"
    /\ exception' = "parser.error"
    /\ exit_code' = 1
    /\ UNCHANGED <<script, args, self, fs, trace, setup_success, install_success,
                   verification_success, success, environ>>

\* parser.error(message): argparse prints the usage and exits with status 2
parser_error ==
    /\ pc' = "exited"
    /\ exception' = "parser.error"
    /\ exit_code' = 2
    /\ UNCHANGED <<script, args, self, fs, trace, setup_success, install_success,
                   verification_success, success, environ>>

\* an exception that no handler catches: traceback, exit status 1
uncaught ==
    /\ pc' = "exited"
    /\ exception' = "uncaught"
    /\ exit_code' = 1
    /\ UNCHANGED <<script, args, self, fs, trace, setup_success, install_success,
                   verification_success, success, environ>>

\* main of native_linux_packages_test_gpg.py, up to the constructor call
main ==
    /\ script = "native"
    /\ pc = "main"
    /\ IF _derive_package_type(args.os_profile) = <<"ValueError">>
       THEN parser_error
       ELSE /\ pc' = "construct"
            /\ UNCHANGED <<script, args, self, fs, trace, setup_success, install_success,
                           verification_success, success, environ, exception, exit_code>>

\* tester = NativeLinuxPackagesTester(...)
construct ==
    /\ script = "native"
    /\ pc = "construct"
    /\ IF init_raises(args)
       THEN uncaught
       ELSE /\ self' = init(args)
            /\ pc' = "setup"
            /\ UNCHANGED <<script, args, fs, trace, setup_success, install_success,
                           verification_success, success, environ, exception, exit_code>>

\* run(), step 1 without the "if not setup_success: return False"
run_setup_step_no_return(o) ==
    /\ trace' = trace \o o.ev
    /\ IF o.how = "hang"
       THEN /\ pc' = "blocked"
            /\ UNCHANGED <<setup_success, success, exception>>
       ELSE IF o.how = "raise"
       THEN /\ pc' = "done"
            /\ exception' = "caught"
            /\ success' = "False"
            /\ UNCHANGED setup_success
       ELSE /\ setup_success' = B(o.val)
            /\ pc' = "install"
            /\ UNCHANGED <<success, exception>>
    /\ UNCHANGED <<script, args, self, fs, install_success, verification_success,
                   environ, exit_code>>

\* run(), step 1, storing the repository URL back with a trailing slash
run_setup_step_rewrites_url(o) ==
    /\ trace' = trace \o o.ev
    /\ self' = [self EXCEPT !.repo_url = @ \o <<"/">>]
    /\ IF o.how = "hang"
       THEN /\ pc' = "blocked"
            /\ UNCHANGED <<setup_success, success, exception>>
       ELSE IF o.how = "raise"
       THEN /\ pc' = "done"
            /\ exception' = "caught"
            /\ success' = "False"
            /\ UNCHANGED setup_success
       ELSE /\ setup_success' = B(o.val)
            /\ pc' = IF o.val THEN "install" ELSE "done"
            /\ success' = IF o.val THEN success ELSE "False"
            /\ UNCHANGED exception
    /\ UNCHANGED <<script, args, fs, install_success, verification_success,
                   environ, exit_code>>

\* run(), step 1: an outcome o of the repository setup
run_setup_step(o) ==
    /\ trace' = trace \o o.ev
    /\ IF o.how = "hang"
       THEN /\ pc' = "blocked"
            /\ UNCHANGED <<setup_success, success, exception>>
       ELSE IF o.how = "raise"
       THEN /\ pc' = "done"
            /\ exception' = "caught"
            /\ success' = "False"
            /\ UNCHANGED setup_success
       ELSE /\ setup_success' = B(o.val)
            /\ pc' = IF o.val THEN "install" ELSE "done"
            /\ success' = IF o.val THEN success ELSE "False"
            /\ UNCHANGED exception
    /\ UNCHANGED <<script, args, self, fs, install_success, verification_success,
                   environ, exit_code>>

\* run(), step 2, going back to the repository setup when the install fails
run_install_step_retry(o, f) ==
    /\ trace' = trace \o o.ev
    /\ IF o.how = "hang"
       THEN /\ pc' = "blocked"
            /\ UNCHANGED <<install_success, success, exception, fs>>
       ELSE IF o.how = "raise"
       THEN /\ pc' = "done"
            /\ exception' = "caught"
            /\ success' = "False"
            /\ UNCHANGED <<install_success, fs>>
       ELSE /\ install_success' = B(o.val)
            /\ pc' = IF o.val THEN "verify" ELSE "setup"
            /\ success' = IF o.val THEN success ELSE "False"
            /\ fs' = IF o.val THEN f ELSE fs
            /\ UNCHANGED exception
    /\ UNCHANGED <<script, args, self, setup_success, verification_success,
                   environ, exit_code>>

\* run(), step 2: an outcome o of the install, leaving files f under the prefix
run_install_step(o, f) ==
    /\ trace' = trace \o o.ev
    /\ IF o.how = "hang"
       THEN /\ pc' = "blocked"
            /\ UNCHANGED <<install_success, success, exception, fs>>
       ELSE IF o.how = "raise"
       THEN /\ pc' = "done"
            /\ exception' = "caught"
            /\ success' = "False"
            /\ UNCHANGED <<install_success, fs>>
       ELSE /\ install_success' = B(o.val)
            /\ pc' = IF o.val THEN "verify" ELSE "done"
            /\ success' = IF o.val THEN success ELSE "False"
            /\ fs' = IF o.val THEN f ELSE fs
            /\ UNCHANGED exception
    /\ UNCHANGED <<script, args, self, setup_success, verification_success,
                   environ, exit_code>>

\* run(), step 3: an outcome o of the verification, and the value run() returns
run_verify_step(o) ==
    /\ trace' = trace \o o.ev
    /\ IF o.how = "hang"
       THEN /\ pc' = "blocked"
            /\ UNCHANGED <<verification_success, success, exception>>
       ELSE IF o.how = "raise"
       THEN /\ pc' = "done"
            /\ exception' = "caught"
            /\ success' = "False"
            /\ UNCHANGED verification_success
       ELSE /\ verification_success' = B(o.val)
            /\ pc' = "done"
            /\ success' = B(install_success = "True" /\ o.val)
            /\ UNCHANGED exception
    /\ UNCHANGED <<script, args, self, fs, setup_success, install_success,
                   environ, exit_code>>

\* NativeLinuxPackagesTester.run(): Step 1
run_setup ==
    /\ script = "native"
    /\ pc = "setup"
    /\ \E o \in IF self.package_type = s_deb THEN setup_deb_repository(self)
                ELSE setup_rpm_repository(self) :
          run_setup_step(o)

\* NativeLinuxPackagesTester.run(): Step 2
run_install ==
    /\ script = "native"
    /\ pc = "install"
    /\ \E o \in IF self.package_type = s_deb THEN install_deb_packages(self)
                ELSE install_rpm_packages(self) :
          \E f \in IF o.how = "return" /\ o.val THEN FsStates ELSE {fs} :
             run_install_step(o, f)

\* NativeLinuxPackagesTester.run(): Step 3
run_verify ==
    /\ script = "native"
    /\ pc = "verify"
    /\ \E o \in verify_rocm_installation(self, fs) : run_verify_step(o)

\* sys.exit(success): True exits with 1, False with 0
sys_exit_bool ==
    /\ pc = "done"
    /\ pc' = "exited"
    /\ exit_code' = IF success = "True" THEN 1 ELSE 0
    /\ UNCHANGED <<script, args, self, fs, trace, setup_success, install_success,
                   verification_success, success, environ, exception>>

\* sys.exit(0 if success else 1)
sys_exit ==
    /\ pc = "done"
    /\ pc' = "exited"
    /\ exit_code' = IF success = "True" THEN 0 ELSE 1
    /\ UNCHANGED <<script, args, self, fs, trace, setup_success, install_success,
                   verification_success, success, environ, exception>>

\* str.isdigit()
isdigit(s) == s # <<>> /\ \A i \in 1..Len(s) : s[i] \in Digits

\* main of package_full_test.py without the isdigit() test of the date
P_main_no_isdigit ==
    /\ script = "full"
    /\ pc = "main"
    /\ IF \/ strip(args.artifact_id) = <<>>
          \/ strip(args.rocm_version) = <<>>
          \/ strip(args.os_profile) = <<>>
          \/ strip(args.date) = <<>>
          \/ Len(args.date) # 8
       THEN parser_error
       ELSE /\ pc' = "construct"
            /\ UNCHANGED <<script, args, self, fs, trace, setup_success, install_success,
                           verification_success, success, environ, exception, exit_code>>

\* main of package_full_test.py, up to the constructor call
P_main ==
    /\ script = "full"
    /\ pc = "main"
    /\ IF \/ strip(args.artifact_id) = <<>>
          \/ strip(args.rocm_version) = <<>>
          \/ strip(args.os_profile) = <<>>
          \/ strip(args.date) = <<>>
          \/ Len(args.date) # 8
          \/ ~isdigit(args.date)
       THEN parser_error
       ELSE /\ pc' = "construct"
            /\ UNCHANGED <<script, args, self, fs, trace, setup_success, install_success,
                           verification_success, success, environ, exception, exit_code>>

\* tester = PackageFullTester(...)
P_construct ==
    /\ script = "full"
    /\ pc = "construct"
    /\ IF P_init_raises(args)
       THEN uncaught
       ELSE /\ self' = P_init(args)
            /\ pc' = "setup"
            /\ UNCHANGED <<script, args, fs, trace, setup_success, install_success,
                           verification_success, success, environ, exception, exit_code>>

\* PackageFullTester.run(): Step 1
P_run_setup ==
    /\ script = "full"
    /\ pc = "setup"
    /\ \E o \in IF self.package_type = s_deb THEN P_setup_deb_repository(self)
                ELSE P_setup_rpm_repository(self) :
          run_setup_step(o)

\* PackageFullTester.run(): Step 2
P_run_install ==
    /\ script = "full"
    /\ pc = "install"
    /\ \E o \in IF self.package_type = s_deb THEN P_install_deb_packages(self)
                ELSE P_install_rpm_packages(self) :
          \E f \in IF o.how = "return" /\ o.val THEN FsStates ELSE {fs} :
             run_install_step(o, f)

\* PackageFullTester.run(): Step 3
P_run_verify ==
    /\ script = "full"
    /\ pc = "verify"
    /\ \E o \in P_verify_rocm_installation(self, fs) : run_verify_step(o)

Next ==
    \/ main
    \/ construct
    \/ run_setup
    \/ run_install
    \/ run_verify
    \/ P_main
    \/ P_construct
    \/ P_run_setup
    \/ P_run_install
    \/ P_run_verify
    \/ sys_exit

Spec == Init /\ [][Next]_vars

----------------------------------------------------------------------------
(* Resolution of the OS profile: every supported and some unsupported prefixes, *)
(* in lower, upper and capitalised spelling, with and without a version         *)

UpperTable ==
    [a |-> "A", b |-> "B", c |-> "C", d |-> "D", e |-> "E", f |-> "F",
     g |-> "G", h |-> "H", i |-> "I", j |-> "J", k |-> "K", l |-> "L",
     m |-> "M", n |-> "N", o |-> "O", p |-> "P", q |-> "Q", r |-> "R",
     s |-> "S", t |-> "T", u |-> "U", v |-> "V", w |-> "W", x |-> "X",
     y |-> "Y", z |-> "Z"]

UpperCh(ch) == IF ch \in DOMAIN UpperTable THEN UpperTable[ch] ELSE ch

AllUpper(s) == [i \in 1..Len(s) |-> UpperCh(s[i])]

Capitalised(s) == [i \in 1..Len(s) |-> IF i = 1 THEN UpperCh(s[i]) ELSE s[i]]

ProfilePrefixes ==
    {s_ubuntu, s_debian, s_rhel, s_sles, s_almalinux, s_centos, s_azl,
     <<"f", "e", "d", "o", "r", "a">>, <<"s", "u", "s", "e">>,
     <<"u", "b", "u", "n", "t">>, <<"x", "u", "b", "u", "n", "t", "u">>,
     <<"r", "h", "e">>, <<"o", "p", "e", "n", "s", "l", "e", "s">>, <<>>}

ProfileSuffixes == {<<>>, <<"8">>, <<"2", "4", "0", "4">>}

ResolveProfiles ==
    UNION {{q \o sfx, AllUpper(q) \o sfx, Capitalised(q) \o sfx} :
             <<q, sfx>> \in ProfilePrefixes \X ProfileSuffixes}

ResolveArgs ==
    [os_profile : ResolveProfiles,
     repo_url : {NightlyUrl},
     release_type : {s_nightly},
     install_prefix : {Prefix},
     gfx_arch : {[tag |-> "list", v |-> <<s_gfx1151>>]},
     gpg_key_url : {None}]

InitResolve ==
    /\ script = "native"
    /\ pc = "main"
    /\ args \in ResolveArgs
    /\ environ = EnvUnset
    /\ self = NoObject
    /\ fs = NoFiles
    /\ trace = <<>>
    /\ setup_success = "unset"
    /\ install_success = "unset"
    /\ verification_success = "unset"
    /\ success = "unset"
    /\ exception = "none"
    /\ exit_code = NoExit

NextResolve ==
    \/ main
    \/ construct
    \/ run_setup

SpecResolve == InitResolve /\ [][NextResolve]_vars

----------------------------------------------------------------------------
(* Properties *)

\* s starts with prefix when the case of the letters is ignored
StartsWithAnyCase(s, prefix) ==
    /\ Len(s) >= Len(prefix)
    /\ \A i \in 1..Len(prefix) : s[i] = prefix[i] \/ s[i] = UpperCh(prefix[i])

\* the programs run so far
ToolsUsed == {trace[i].name : i \in {j \in 1..Len(trace) : trace[j].kind \in {"run", "popen"}}}

\* the files written so far
FilesWritten == {trace[i].name : i \in {j \in 1..Len(trace) : trace[j].kind = "write"}}

Constructed == pc \notin {"main", "construct"} /\ exception \notin {"parser.error", "uncaught"}

\* C1: compared case-insensitively, a profile starting with ubuntu or debian resolves
\* to the DEB family (package type deb, repository set up with apt); one starting with
\* rhel, almalinux, centos or azl to the RPM family handled with dnf; one starting with
\* sles to the RPM family handled with zypper; every other profile is rejected with an
\* error and no tester object, hence no family, exists for it.
C1_ProfileResolvesToFamily ==
    (script = "native" /\ pc # "main") =>
       LET p == args.os_profile
           isDeb == StartsWithAnyCase(p, s_ubuntu) \/ StartsWithAnyCase(p, s_debian)
           isDnf == \/ StartsWithAnyCase(p, s_rhel)
                    \/ StartsWithAnyCase(p, s_almalinux)
                    \/ StartsWithAnyCase(p, s_centos)
                    \/ StartsWithAnyCase(p, s_azl)
           isZypper == StartsWithAnyCase(p, s_sles)
       IN  /\ (isDeb \/ isDnf \/ isZypper) => exception # "parser.error"
           /\ (isDeb /\ Constructed) =>
                 /\ self.package_type = s_deb
                 /\ ToolsUsed \subseteq {<<"apt">>}
                 /\ FilesWritten \subseteq {APT_SOURCES_LIST}
           /\ (isDnf /\ Constructed) =>
                 /\ self.package_type = s_rpm /\ ~_is_sles(self)
                 /\ ToolsUsed \subseteq {<<"dnf">>}
                 /\ FilesWritten \subseteq {YUM_REPOS_DIR \o <<"/">> \o REPO_NAME \o <<".repo">>}
           /\ (isZypper /\ Constructed) =>
                 /\ self.package_type = s_rpm /\ _is_sles(self)
                 /\ ToolsUsed \subseteq {<<"zypper">>}
                 /\ FilesWritten \subseteq {ZYPP_REPOS_DIR \o <<"/">> \o REPO_NAME \o <<".repo">>}
           /\ ~(isDeb \/ isDnf \/ isZypper) =>
                 /\ pc = "exited"
                 /\ exception = "parser.error"
                 /\ self = NoObject
                 /\ trace = <<>>

\* C1 witness: an upper-case SLES profile was resolved and its repository refreshed by zypper
C1_Witness ==
    /\ args.os_profile = AllUpper(s_sles) \o <<"8">>
    /\ pc = "install"
    /\ self.package_type = s_rpm
    /\ <<"zypper">> \in ToolsUsed

\* s ends with suffix
EndsWith(s, suffix) ==
    /\ Len(s) >= Len(suffix)
    /\ SubSeq(s, Len(s) - Len(suffix) + 1, Len(s)) = suffix

\* the installed-package listing: dpkg -l, rpm -qa or zypper search -i
IsQueryEvent(e) ==
    /\ e.kind = "run"
    /\ \/ e.name \in {<<"dpkg">>, <<"rpm">>}
       \/ e.name = <<"zypper">> /\ \E i \in 1..Len(e.data) : e.data[i] = <<"search">>

\* a run of <prefix>/bin/rocminfo
IsRocminfoEvent(e) == e.kind = "run" /\ EndsWith(e.name, <<"bin", "/", "rocminfo">>)

\* a run of the rdhc script, directly or through the interpreter
IsRdhcEvent(e) ==
    /\ e.kind = "run"
    /\ \E i \in 1..Len(e.data) :
          EndsWith(e.data[i], RDHC_REL_PATH) \/ EndsWith(e.data[i], <<"rdhc.py">>)

\* an event of the install step: the package manager run with an install argument
IsInstallEvent(e) ==
    e.kind = "popen" /\ \E i \in 1..Len(e.data) : e.data[i] = <<"install">>

\* an event of the verification step: an existence check, the package listing,
\* rocminfo or the rdhc script
IsVerifyEvent(e) ==
    \/ e.kind = "exists"
    \/ IsQueryEvent(e)
    \/ IsRocminfoEvent(e)
    \/ IsRdhcEvent(e)

InstallEvents == {i \in 1..Len(trace) : IsInstallEvent(trace[i])}

VerifyEvents == {i \in 1..Len(trace) : IsVerifyEvent(trace[i])}

\* run() was entered and main has exited
RunExited == pc = "exited" /\ exception \notin {"parser.error", "uncaught"}

\* the install command ran and exited with code 0 within its timeout
InstallCommandSucceeded == \E i \in InstallEvents : trace[i].fate = "exit0"

\* C2: for every run of run() followed by main's exit, the exit code is 0 if and only
\* if the install step succeeded and the verification step passed; in every other
\* outcome (repository setup failed, install failed, verification failed or raised)
\* the exit code is 1.
C2_ExitCodeOfRun ==
    RunExited =>
       /\ exit_code \in {0, 1}
       /\ exit_code = 0 <=>
             /\ install_success = "True"
             /\ InstallCommandSucceeded
             /\ verification_success = "True"
       /\ (setup_success # "True" \/ install_success # "True"
             \/ verification_success # "True") => exit_code = 1

\* C2 witness: a run whose install and verification both succeeded has exited with 0
C2_Witness ==
    /\ RunExited
    /\ install_success = "True"
    /\ verification_success = "True"
    /\ exit_code = 0

\* C3 as stated: every failing outcome, a rejected OS profile or date included, exits
\* with code 1, and the only exit codes are 0 and 1.
C3_OnlyExitCodesZeroAndOne ==
    pc = "exited" => /\ exit_code \in {0, 1}
                     /\ success # "True" => exit_code = 1

\* C3 amended: every outcome of run() other than success, and every exception that
\* escapes main, exits with code 1 and success with 0; an argument rejected in main's
\* validation (unsupported OS profile, malformed date) goes through parser.error and
\* exits with code 2; the exit codes produced are 0, 1 and 2.
C3_ExitCodes ==
    pc = "exited" =>
       /\ exit_code \in {0, 1, 2}
       /\ exit_code = 2 <=> exception = "parser.error"
       /\ exit_code = 0 <=> success = "True"
       /\ exception = "parser.error" => (self = NoObject /\ trace = <<>>)
       /\ (script = "native" /\ _derive_package_type(args.os_profile) = <<"ValueError">>)
             => exit_code = 2
       /\ (script = "full" /\ (Len(args.date) # 8 \/ ~isdigit(args.date)))
             => exit_code = 2

\* C3 witness: a date that is not eight digits was rejected by package_full_test.py
C3_Witness ==
    /\ script = "full"
    /\ pc = "exited"
    /\ Len(args.date) = 8
    /\ ~isdigit(args.date)
    /\ exit_code = 2

\* the repository setup returned failure or raised
SetupFailed ==
    \/ setup_success = "False"
    \/ setup_success = "unset" /\ exception = "caught"

\* the install returned failure or raised
InstallFailed ==
    \/ install_success = "False"
    \/ setup_success = "True" /\ install_success = "unset" /\ exception = "caught"

\* C4: in run(), if repository setup fails then neither the install command nor any
\* verification step is executed and the result is failure; if the install fails then
\* no verification step is executed and the result is failure; if verification fails
\* the run has still completed and the result is failure.
C4_FailureShortCircuits ==
    /\ SetupFailed =>
          /\ InstallEvents = {}
          /\ VerifyEvents = {}
          /\ install_success = "unset"
          /\ verification_success = "unset"
          /\ pc \in {"done", "exited"}
          /\ success = "False"
    /\ InstallFailed =>
          /\ VerifyEvents = {}
          /\ verification_success = "unset"
          /\ pc \in {"done", "exited"}
          /\ success = "False"
    /\ verification_success = "False" =>
          /\ pc \in {"done", "exited"}
          /\ success = "False"
    /\ pc = "exited" /\ (SetupFailed \/ InstallFailed \/ verification_success = "False")
          => exit_code = 1

\* C4 witness: apt update failed after the source entry was written, and the run ended
C4_Witness ==
    /\ pc = "exited"
    /\ setup_success = "False"
    /\ \E i \in 1..Len(trace) : trace[i].kind = "popen" /\ trace[i].fate = "exitN"
    /\ InstallEvents = {}

\* the checklist of the script that is running
Checklist == IF script = "native" THEN VERIFY_KEY_COMPONENTS ELSE P_KEY_COMPONENTS

\* an existence check of a checklist path under the install prefix
IsChecklistEvent(e) ==
    /\ e.kind = "exists"
    /\ \E k \in 1..Len(Checklist) : e.name = self.install_prefix \o <<"/", Checklist[k]>>

\* the number of checklist paths the verification found under the install prefix
ChecklistFound ==
    Cardinality({i \in 1..Len(trace) :
                   IsChecklistEvent(trace[i]) /\ trace[i].fate = "found"})

\* the verification step was entered and has ended (it returned or it raised)
VerifyEnded == install_success = "True" /\ pc \in {"done", "exited"}

\* C5: when the install prefix exists, verify_rocm_installation returns pass if and
\* only if at least 2 of the checklist paths exist under the install prefix (2 found
\* gives PASS, 1 found gives FAIL), whichever subset of the checklist is present.
C5_VerifyPassIffTwoFound ==
    (VerifyEnded /\ self.install_prefix # None /\ fs.prefix) =>
       /\ ChecklistFound = found_count(Checklist, fs)
       /\ verification_success = "True" <=> ChecklistFound >= 2

\* C6: if the install prefix does not exist, or none was supplied, the verification
\* returns failure without raising an exception and without a checklist existence
\* check, a package query, or a run of rocminfo or rdhc.
C6_MissingPrefixFailsQuietly ==
    (VerifyEnded /\ (self.install_prefix = None \/ ~fs.prefix)) =>
       /\ verification_success = "False"
       /\ exception = "none"
       /\ \A i \in 1..Len(trace) :
             /\ ~IsQueryEvent(trace[i])
             /\ ~IsRocminfoEvent(trace[i])
             /\ ~IsRdhcEvent(trace[i])
             /\ trace[i].kind = "exists" =>
                   (self.install_prefix # None /\ trace[i].name = self.install_prefix)

\* the option opt appears in the source entry line
HasOption(line, opt) == \E i \in 1..Len(line) : line[i] = opt

\* the APT source entries written so far
AptEntries ==
    {trace[i].data[1] :
       i \in {j \in 1..Len(trace) : /\ trace[j].kind = "write"
                                    /\ trace[j].data # <<>>
                                    /\ trace[j].data[1][1] = "deb [arch=amd64 "}}

\* a non-empty gpg_key_url was given (package_full_test.py takes none)
GpgKeyGiven ==
    script = "native" /\ args.gpg_key_url # None /\ Len(args.gpg_key_url) > 0

\* C7: the APT source entry written by setup_deb_repository has trusted=yes and no
\* signed-by when gpg_key_url is empty or absent, and signed-by and no trusted=yes
\* when gpg_key_url is non-empty; every entry has exactly one of the two options.
C7_AptEntryTrustOption ==
    \A l \in AptEntries :
       /\ HasOption(l, "signed-by=") # HasOption(l, "trusted=yes")
       /\ GpgKeyGiven => (HasOption(l, "signed-by=") /\ ~HasOption(l, "trusted=yes"))
       /\ ~GpgKeyGiven => (HasOption(l, "trusted=yes") /\ ~HasOption(l, "signed-by="))

\* C7 witness: with a key URL given, an entry signed by the keyring was written
C7_Witness ==
    /\ GpgKeyGiven
    /\ \E l \in AptEntries : HasOption(l, "signed-by=")

\* a repository refresh: apt update or zypper refresh
IsRefreshEvent(e) ==
    /\ e.kind = "popen"
    /\ \/ e.name = <<"apt">> /\ \E i \in 1..Len(e.data) : e.data[i] = <<"update">>
       \/ e.name = <<"zypper">> /\ \E i \in 1..Len(e.data) : e.data[i] = <<"refresh">>

\* C8: whenever apt update or zypper refresh runs longer than its 120 s timeout, the
\* child is killed and the repository setup returns failure; the refresh is never
\* left running and its overrun is never taken for success.
C8_RefreshOverrunKilled ==
    \A i \in 1..Len(trace) :
       (IsRefreshEvent(trace[i]) /\ trace[i].over) =>
          /\ trace[i].timeout = 120
          /\ trace[i].fate = "killed"
          /\ setup_success = "False"

\* C9: every run of run() goes on to its end: in every state the process has exited
\* or has a next step, so that no step of repository setup, install or verification
\* waits forever on a child process.
C9_RunTerminates == pc = "exited" \/ ENABLED Next

\* a is empty or white space only
IsBlank(a) == \A k \in 1..Len(a) : a[k] \in Whitespace

\* the GPU architecture the tester selects from what it was given: the string given
\* to package_full_test.py, the first non-blank element of the list given to
\* native_linux_packages_test_gpg.py, gfx94x when there is none
GivenArch ==
    IF script = "full" THEN args.gfx_arch.v
    ELSE LET v == args.gfx_arch.v
             nb == {i \in 1..Len(v) : ~IsBlank(v[i])}
         IN  IF nb = {} THEN s_gfx94x
             ELSE v[CHOOSE i \in nb : \A j \in nb : i <= j]

\* the words of an install command that are not package names
InstallWords ==
    {<<"apt">>, <<"dnf">>, <<"zypper">>, <<"install">>, <<"-y">>,
     <<"--non-interactive">>, <<"--no-gpg-checks">>, <<"--gpg-auto-import-keys">>}

\* the packages named on the command line of install event e
PackageArgs(e) == {k \in 1..Len(e.data) : e.data[k] \notin InstallWords}

\* a and b are the same string when the case of the letters is ignored
SameIgnoringCase(a, b) ==
    /\ Len(a) = Len(b)
    /\ \A i \in 1..Len(a) : UpperCh(a[i]) = UpperCh(b[i])

\* a has no upper-case letter
NoUpperCase(a) ==
    \A i \in 1..Len(a) : a[i] \notin {UpperTable[k] : k \in DOMAIN UpperTable}

\* C10 as stated: the package name passed to the install command is 'amdrocm-'
\* followed by the gpu_arch given to the tester, and the install command installs
\* exactly that one package.
C10_PackageNameIsGivenArch ==
    /\ Cardinality(InstallEvents) <= 1
    /\ \A i \in InstallEvents :
          /\ Cardinality(PackageArgs(trace[i])) = 1
          /\ \A k \in PackageArgs(trace[i]) : trace[i].data[k] = s_amdrocm \o GivenArch

\* C10 amended: the package name passed to the install command is 'amdrocm-' followed
\* by the selected gpu_arch converted to lower case (GFX942 gives amdrocm-gfx942,
\* gfx1151 gives amdrocm-gfx1151), and the one install command of a run names exactly
\* that one package.
C10_PackageNameLowerCased ==
    /\ Cardinality(InstallEvents) <= 1
    /\ \A i \in InstallEvents :
          /\ Cardinality(PackageArgs(trace[i])) = 1
          /\ \A k \in PackageArgs(trace[i]) :
                LET name == trace[i].data[k]
                    arch == SubSeq(name, Len(s_amdrocm) + 1, Len(name))
                IN  /\ k = Len(trace[i].data)
                    /\ SubSeq(name, 1, Len(s_amdrocm)) = s_amdrocm
                    /\ SameIgnoringCase(arch, GivenArch)
                    /\ NoUpperCase(arch)
                    /\ self.gfx_arch = arch

\* C10 witness: given GFX942, the install command was run for amdrocm-gfx942
C10_Witness ==
    /\ GivenArch = s_GFX942
    /\ \E i \in InstallEvents :
          trace[i].data[Len(trace[i].data)]
             = s_amdrocm \o <<"g", "f", "x", "9", "4", "2">>

\* the base URL given to package_full_test.py, up to its trailing slashes
TrimmedBase ==
    LET u == args.repo_base_url
        n == CHOOSE m \in 0..Len(u) :
                /\ \A i \in (m + 1)..Len(u) : u[i] = "/"
                /\ m = 0 \/ u[m] # "/"
    IN  SubSeq(u, 1, n)

\* the repository URLs written into the APT source entries and .repo files so far
UrlsWritten ==
    {LET d == trace[i].data
     IN  IF d[1][1] = "deb [arch=amd64 "
         THEN SubSeq(d[1], 4, Len(d[1]) - 1)
         ELSE Tail(d[3]) :
       i \in {j \in 1..Len(trace) : trace[j].kind = "write" /\ Len(trace[j].data) >= 1
                                    /\ (trace[j].data[1][1] = "deb [arch=amd64 "
                                        \/ Len(trace[j].data) >= 3)}}

WriteEvents == {i \in 1..Len(trace) : trace[i].kind = "write"}

\* the repository definition file of the family of the run
FamilyRepoFile ==
    IF script = "full"
    THEN IF self.package_type = s_deb
         THEN <<"/etc/apt/sources.list.d/", "rocm-test", ".list">>
         ELSE <<"/etc/yum.repos.d", "/", "rocm-test", ".repo">>
    ELSE IF self.package_type = s_deb THEN APT_SOURCES_LIST
         ELSE IF _is_sles(self) THEN ZYPP_REPOS_DIR \o <<"/">> \o REPO_NAME \o <<".repo">>
              ELSE YUM_REPOS_DIR \o <<"/">> \o REPO_NAME \o <<".repo">>

\* the keyring file that setup_gpg_key writes
KeyringWritten == APT_KEYRING_DIR \o <<"/rocm.gpg">>

\* C12 as stated: repository setup writes exactly one filesystem artifact, an APT
\* sources-list file, an APT keyring file or a .repo file; no run writes two of them.
C12_ExactlyOneArtifact ==
    /\ Cardinality(WriteEvents) <= 1
    /\ setup_success = "True" => Cardinality(WriteEvents) = 1

\* C12 amended: a repository setup that succeeds has written the one repository
\* definition file of its family (the APT sources-list file for DEB, one .repo file
\* for RPM) and, only for DEB with a non-empty key URL, before it the APT keyring
\* file; no run writes any other file, writes a file twice, or writes both a
\* sources-list file and a .repo file.
C12_ArtifactsOfFamily ==
    self # NoObject =>
       LET withKey == script = "native" /\ self.package_type = s_deb
                        /\ Truthy(self.gpg_key_url)
           allowed == {FamilyRepoFile} \cup (IF withKey THEN {KeyringWritten} ELSE {})
       IN  /\ FilesWritten \subseteq allowed
           /\ \A i, j \in WriteEvents : trace[i].name = trace[j].name => i = j
           /\ \A i, j \in WriteEvents :
                 (trace[i].name = KeyringWritten /\ trace[j].name = FamilyRepoFile
                    /\ KeyringWritten # FamilyRepoFile) => i < j
           /\ setup_success = "True" =>
                 /\ FilesWritten = allowed
                 /\ \A i \in WriteEvents : trace[i].fate = "ok"

\* C12 witness: a DEB setup with a key URL succeeded after writing the keyring file
\* and the sources-list file
C12_Witness ==
    /\ setup_success = "True"
    /\ self.package_type = s_deb
    /\ FilesWritten = {KeyringWritten, APT_SOURCES_LIST}
    /\ Cardinality(WriteEvents) = 2

\* the OS profile starts, in any letter case, with one of the supported names
SupportedProfile(p) ==
    \E name \in {s_ubuntu, s_debian, s_rhel, s_sles, s_almalinux, s_centos, s_azl} :
       StartsWithAnyCase(p, name)

\* the command line carries a configuration error: an unsupported OS profile, or a
\* build date that is not exactly 8 digits
ConfigErrorInput ==
    \/ script = "native" /\ ~SupportedProfile(args.os_profile)
    \/ script = "full" /\ (Len(args.date) # 8 \/ \E i \in 1..Len(args.date) :
                                                      args.date[i] \notin Digits)

RepoFileWrites ==
    {i \in WriteEvents : script = "native" /\ EndsWith(trace[i].name, <<".repo">>)}

\* the APT sources-list files written so far by native_linux_packages_test_gpg.py
AptListWrites ==
    {i \in WriteEvents : /\ script = "native"
                         /\ trace[i].data # <<>>
                         /\ trace[i].data[1][1] = "deb [arch=amd64 "}

\* C14: whatever the ROCM_REPO_NAME override, that repo name is the repo id in the
\* three documented places: the APT sources-list file name, the Zypper/Yum .repo file
\* name, and the section id inside the generated Zypper and Yum .repo files.
C14_RepoNameInAllPlaces ==
    /\ \A i \in AptListWrites :
          trace[i].name = <<"/etc/apt/sources.list.d/">> \o REPO_NAME \o <<".list">>
    /\ \A i \in {j \in RepoFileWrites : trace[j].fate = "ok"} :
          /\ EndsWith(trace[i].name, <<"/">> \o REPO_NAME \o <<".repo">>)
          /\ trace[i].data[1] = <<"[">> \o REPO_NAME \o <<"]">>

\* the place of a position of the process in the order of a run; "blocked" is a step
\* that never returns and "exited" the end of the process
StepRank ==
    [main |-> 0, construct |-> 1, setup |-> 2, install |-> 3, verify |-> 4,
     done |-> 5, exited |-> 6, blocked |-> 6]

\* the step an event of the trace belongs to: 4 for verification, 3 for the install,
\* 2 for repository setup
EventRank(e) == IF IsVerifyEvent(e) THEN 4 ELSE IF IsInstallEvent(e) THEN 3 ELSE 2

\* the events of the trace are in the order of the steps
TraceInStepOrder ==
    \A i \in 1..(Len(trace) - 1) : EventRank(trace[i]) <= EventRank(trace[i + 1])

\* C15: within one run the steps occur only in the order REPO_SETUP, INSTALL, VERIFY,
\* DONE: every change of position goes to a later step, so each step is entered at
\* most once and none after a later one has started, and DONE is left only by the
\* exit of the process.
C15_StepOrder ==
    [][/\ pc' # pc => StepRank[pc'] > StepRank[pc]
       /\ pc = "done" => pc' \in {"done", "exited"}
       /\ pc \in {"exited", "blocked"} => pc' = pc
       /\ TraceInStepOrder']_vars

\* C15 witness: a run that went through setup, install and verification is DONE
C15_Witness ==
    /\ pc = "done"
    /\ setup_success = "True"
    /\ install_success = "True"
    /\ verification_success # "unset"
    /\ \E i, j, k \in 1..Len(trace) :
          /\ i < j /\ j < k
          /\ EventRank(trace[i]) = 2
          /\ EventRank(trace[j]) = 3
          /\ EventRank(trace[k]) = 4

\* C16: any exception raised anywhere in the program, during the construction of the
\* tester, repository setup, install or verification, is caught at the top level and
\* turned into an overall failure result; none escapes as an unhandled crash.
C16_NoUnhandledCrash ==
    /\ exception # "uncaught"
    /\ exception = "caught" => (success = "False" /\ pc \in {"done", "exited"})

\* C17: every external command started by either script (mkdir, the wget | gpg
\* pipeline, apt, dnf, zypper with removerepo, dpkg -l, rpm -qa, zypper search,
\* rocminfo, rdhc) is invoked with an explicit finite timeout.
C17_EveryCommandTimed ==
    \A i \in 1..Len(trace) :
       trace[i].kind \in {"run", "popen"} => (trace[i].timed /\ trace[i].timeout > 0)

\* the run is of the dnf RPM family and its repository setup is over
DnfSetupOver ==
    /\ self # NoObject
    /\ self.package_type = s_rpm
    /\ script = "full" \/ ~_is_sles(self)
    /\ pc # "setup"

\* C18: for the dnf RPM family repository setup fails only when writing the .repo
\* file fails: whether dnf clean all fails, times out or cannot be started, setup
\* returns success whenever the .repo file was written.
C18_DnfCleanBestEffort ==
    DnfSetupOver =>
       /\ (\E i \in WriteEvents : trace[i].fate = "ok") => setup_success = "True"
       /\ setup_success # "True" => \E i \in WriteEvents : trace[i].fate = "error"

\* the run is of the zypper (SLES) family and its repository setup has ended
SlesSetupOver ==
    /\ script = "native"
    /\ self # NoObject
    /\ self.package_type = s_rpm
    /\ _is_sles(self)
    /\ pc \notin {"setup", "blocked"}

\* zypper refresh exited with code 0 before its timeout had passed
RefreshedInTime ==
    \E i \in 1..Len(trace) :
       IsRefreshEvent(trace[i]) /\ trace[i].fate = "exit0" /\ ~trace[i].over

\* C19: for the zypper (SLES) family repository setup returns success if and only if
\* the .repo file was written and zypper refresh exited 0 within its timeout; what
\* happens to the removal of a stale repo and to zypper clean (non-zero exit, timeout,
\* any error) never changes that result and never aborts the setup.
C19_SlesSetupResult ==
    SlesSetupOver =>
       /\ setup_success # "unset"
       /\ setup_success = "True" <=>
             ((\E i \in WriteEvents : trace[i].fate = "ok") /\ RefreshedInTime)

\* the .repo files written so far, by either script
AllRepoFileWrites == {i \in WriteEvents : EndsWith(trace[i].name, <<".repo">>)}

\* the file content has the line
HasLine(content, line) == \E k \in 1..Len(content) : content[k] = line

\* the lines of the file content that set gpgkey
GpgKeyLines(content) == {k \in 1..Len(content) : content[k][1] = "gpgkey="}

\* the word is an argument of the command of event e
HasArg(e, word) == \E k \in 1..Len(e.data) : e.data[k] = word

\* the zypper commands of kind word (refresh, install) run so far
ZypperEvents(word) ==
    {i \in 1..Len(trace) : /\ trace[i].kind = "popen"
                           /\ trace[i].name = <<"zypper">>
                           /\ HasArg(trace[i], word)}

\* C20: for the RPM families GPG checking is configured consistently with whether a
\* key URL was given, in every step of a run: with a key URL the .repo file has
\* gpgcheck=1 and a gpgkey line and zypper refresh and zypper install carry
\* --gpg-auto-import-keys; without one the .repo file has gpgcheck=0 and no gpgkey
\* line, zypper refresh has no auto-import flag and zypper install carries
\* --no-gpg-checks.
C20_GpgFlagsConsistent ==
    /\ \A i \in AllRepoFileWrites :
          LET content == trace[i].data
          IN  IF GpgKeyGiven
              THEN /\ HasLine(content, <<"gpgcheck=1">>)
                   /\ ~HasLine(content, <<"gpgcheck=0">>)
                   /\ Cardinality(GpgKeyLines(content)) = 1
                   /\ HasLine(content, <<"gpgkey=">> \o args.gpg_key_url)
              ELSE /\ HasLine(content, <<"gpgcheck=0">>)
                   /\ ~HasLine(content, <<"gpgcheck=1">>)
                   /\ GpgKeyLines(content) = {}
    /\ \A i \in ZypperEvents(<<"refresh">>) :
          /\ HasArg(trace[i], <<"--gpg-auto-import-keys">>) <=> GpgKeyGiven
          /\ ~HasArg(trace[i], <<"--no-gpg-checks">>)
    /\ \A i \in ZypperEvents(<<"install">>) :
          /\ HasArg(trace[i], <<"--gpg-auto-import-keys">>) <=> GpgKeyGiven
          /\ HasArg(trace[i], <<"--no-gpg-checks">>) <=> ~GpgKeyGiven

\* C20 witness: with a key URL given, a SLES run wrote gpgcheck=1 and ran zypper
\* refresh and zypper install with --gpg-auto-import-keys
C20_Witness ==
    /\ GpgKeyGiven
    /\ \E i \in AllRepoFileWrites : HasLine(trace[i].data, <<"gpgcheck=1">>)
    /\ \E i \in ZypperEvents(<<"refresh">>) : HasArg(trace[i], <<"--gpg-auto-import-keys">>)
    /\ \E i \in ZypperEvents(<<"install">>) : HasArg(trace[i], <<"--gpg-auto-import-keys">>)

\* C21: the install step returns success if and only if the package-manager install
\* command exited with code 0 without exceeding the 1800 s timeout; a non-zero exit,
\* a timeout (after which the child is killed) or a failure to start the command each
\* return failure.
C21_InstallResult ==
    \A i \in InstallEvents :
       /\ trace[i].timeout = 1800
       /\ (trace[i].fate = "exit0" /\ ~trace[i].over) => install_success = "True"
       /\ (trace[i].fate # "exit0" \/ trace[i].over) => install_success = "False"
       /\ trace[i].over => trace[i].fate = "killed"

\* the package-manager tools among the programs run so far
PackageToolsUsed ==
    ToolsUsed \cap {<<"apt">>, <<"dpkg">>, <<"dnf">>, <<"rpm">>, <<"zypper">>, <<"yum">>}

\* C22: in every run the tools used for repository setup, install and the listing of
\* installed packages belong to the family the os_profile resolves to: apt and dpkg
\* for ubuntu and debian profiles, dnf and rpm for rhel, almalinux, centos and azl
\* profiles, zypper for sles profiles; no sles run invokes dnf or rpm and no run
\* mixes the tools of two families.
C22_ToolsOfFamily ==
    LET p == args.os_profile
    IN  /\ (StartsWithAnyCase(p, s_ubuntu) \/ StartsWithAnyCase(p, s_debian)) =>
              PackageToolsUsed \subseteq {<<"apt">>, <<"dpkg">>}
        /\ (\/ StartsWithAnyCase(p, s_rhel) \/ StartsWithAnyCase(p, s_almalinux)
            \/ StartsWithAnyCase(p, s_centos) \/ StartsWithAnyCase(p, s_azl)) =>
              PackageToolsUsed \subseteq {<<"dnf">>, <<"rpm">>}
        /\ StartsWithAnyCase(p, s_sles) => PackageToolsUsed \subseteq {<<"zypper">>}

\* C23: the installed-package query of the verification is best-effort: whatever its
\* outcome (non-zero exit, listing tool missing or not startable, any other error)
\* the verification goes on to the rocminfo and rdhc steps and its result is decided
\* by the checklist hit count alone.
C23_QueryBestEffort ==
    \A i \in 1..Len(trace) :
       (IsQueryEvent(trace[i]) /\ pc \in {"done", "exited"}) =>
          /\ exception = "none"
          /\ verification_success = B(ChecklistFound >= 2)
          /\ \E j \in (i + 1)..Len(trace) :
                /\ trace[j].kind = "exists"
                /\ EndsWith(trace[j].name, <<"bin", "/", "rocminfo">>)

\* C24: rocminfo is executed during verification if and only if bin/rocminfo exists
\* under the install prefix, and its outcome (success, non-zero exit, timeout after
\* 30 s, failure to start) never changes the verification result.
C24_RocminfoIffPresent ==
    (VerifyEnded /\ self.install_prefix # None /\ fs.prefix) =>
       /\ (\E i \in 1..Len(trace) : IsRocminfoEvent(trace[i]))
             <=> "bin/rocminfo" \in fs.present
       /\ \A i \in 1..Len(trace) :
             IsRocminfoEvent(trace[i]) =>
                /\ trace[i].timed /\ trace[i].timeout = 30
                /\ verification_success = B(ChecklistFound >= 2)

\* the runs of the rdhc helper so far
RdhcEvents == {i \in 1..Len(trace) : IsRdhcEvent(trace[i])}

\* C25: when the rdhc helper exists it is first run with the single argument --all;
\* whenever that run fails (non-zero exit or timeout) it is run once more without
\* arguments; the helper is run at most twice per verification, and no outcome of
\* either run changes the verification result.
C25_RdhcRetry ==
    VerifyEnded =>
       /\ Cardinality(RdhcEvents) <= 2
       /\ \A i \in RdhcEvents :
             /\ (\A j \in RdhcEvents : i <= j) => HasArg(trace[i], <<"--all">>)
             /\ (HasArg(trace[i], <<"--all">>) /\ trace[i].fate \in {"killed", "exitN"}) =>
                   \E j \in RdhcEvents : j > i /\ ~HasArg(trace[j], <<"--all">>)
             /\ verification_success = B(ChecklistFound >= 2)

\* C26: after construction no step of run() (repository setup, GPG key setup, install,
\* verification, rdhc test) changes a field of the request: os_profile, package_type,
\* repo_url, release_type, gfx_arch, install_prefix, gpg_key_url and package_name keep
\* in every state of a run the values they had right after construction.
C26_RequestImmutable ==
    [][self # NoObject => /\ self' = self
                          /\ args' = args
                          /\ environ' = environ]_vars

\* C26 witness: a run of the native script went through all its steps and exited with
\* the fields the constructor computed
C26_Witness ==
    /\ script = "native"
    /\ pc = "exited"
    /\ verification_success # "unset"
    /\ self = init(args)

\* no GPU architecture was supplied: the string given to package_full_test.py is empty
\* or blank, the list given to native_linux_packages_test_gpg.py has no non-blank
\* element
NoArchSupplied ==
    IF script = "full" THEN IsBlank(args.gfx_arch.v)
    ELSE \A i \in 1..Len(args.gfx_arch.v) : IsBlank(args.gfx_arch.v[i])

\* the package names on the install command lines so far
PackagesInstalled ==
    {trace[i].data[Len(trace[i].data)] : i \in InstallEvents}

\* C27: when no GPU architecture is supplied to the constructor (None, an empty or
\* blank string, a list with no non-blank element) the tester uses the default gfx94x
\* and the package name is amdrocm-gfx94x; when a list is supplied only its first
\* non-blank element determines the package name.
C27_DefaultGfxArch ==
    self # NoObject =>
       /\ NoArchSupplied =>
             /\ self.gfx_arch = s_gfx94x
             /\ PackagesInstalled \subseteq {s_amdrocm \o s_gfx94x}
       /\ (script = "native" /\ ~NoArchSupplied) =>
             /\ SameIgnoringCase(self.gfx_arch, GivenArch)
             /\ \A n \in PackagesInstalled :
                   SameIgnoringCase(n, s_amdrocm \o GivenArch)

\* the keyring path that the source entry line names after signed-by=
SignedByPath(line) ==
    LET k == CHOOSE m \in 1..Len(line) : line[m] = "] "
    IN  SubSeq(line, 3, k - 1)

\* C28: for the DEB family with a GPG key URL, whatever the ROCM_APT_KEYRING_DIR and
\* ROCM_APT_KEYRING_FILE overrides, the keyring path named by signed-by= in the
\* written APT source entry is the path to which setup_gpg_key wrote the dearmored key.
C28_SignedByIsKeyWritten ==
    \A l \in AptEntries :
       HasOption(l, "signed-by=") =>
          \E i \in WriteEvents : trace[i].name = SignedByPath(l)

\* the dearmored key was written to the keyring before trace position i
KeyImportedBefore(i) ==
    \E j \in 1..(i - 1) : /\ trace[j].kind = "write"
                          /\ trace[j].fate = "ok"
                          /\ trace[j].data # <<>>
                          /\ trace[j].data[1][1] = "dearmored "

\* C29: for the DEB family with a GPG key URL, when creating the keyring directory or
\* fetching and dearmoring the key fails or times out, no APT sources-list file is
\* written and apt update does not run: a sources-list file or an apt update is
\* preceded by the write of the dearmored key.
C29_SourcesOnlyAfterKeyImport ==
    (script = "native" /\ GpgKeyGiven) =>
       \A i \in 1..Len(trace) :
          ((i \in AptListWrites /\ trace[i].fate = "ok") \/ (IsRefreshEvent(trace[i]) /\ trace[i].name = <<"apt">>))
             => KeyImportedBefore(i)

\* the verification results the other script's run() can return for the same tester
\* fields and the same files under the install prefix
OtherScriptVerdicts ==
    {o.val : o \in {v \in (IF script = "native"
                           THEN P_verify_rocm_installation(self, fs)
                           ELSE verify_rocm_installation(self, fs)) :
                      v.how = "return"}}

\* C30: for the DEB family with no GPG key and the same repository URL, GPU
\* architecture and install prefix, NativeLinuxPackagesTester.run and
\* PackageFullTester.run return the same overall result: when the three steps of a
\* run have returned, its result is the one the other script's verification returns
\* on the same files under the install prefix.
C30_ScriptsAgree ==
    (/\ VerifyEnded
     /\ verification_success # "unset"
     /\ self.package_type = s_deb
     /\ ~GpgKeyGiven
     /\ self.install_prefix # None /\ fs.prefix)
    => OtherScriptVerdicts = {success = "True"}

====
